---- MODULE Spec2Model ----
(***************************************************************************)
(* Model of the StellarJS request pipeline: CORS origin resolution         *)
(* (server/cors), the security middleware chain (server/security,          *)
(* server/StellarServer), the rate limiters (server/middleware rateLimit   *)
(* and utils TokenBucket).                                                 *)
(***************************************************************************)
EXTENDS Integers, Sequences, FiniteSets, TLC

(***************************************************************************)
(* Bounds                                                                  *)
(***************************************************************************)
\* longest origin string enumerated by the CORS specification
MaxOriginLen == 2
\* largest allow-list enumerated by the CORS specification
MaxListLen == 1

\* Date.now() stops advancing at this many milliseconds
MaxClock == 4000
\* how many requests the rate limiter serves at the same time
MaxInflight == 2

\* longest string handed to the sanitizer
MaxStrLen == 2
\* most entries of an object or array handed to the sanitizer
MaxEntries == 2
\* most save() calls on one audit store
MaxSaves == 2

\* the characters origin strings are built from
OriginChars == {"g", "x"}

VARIABLES
  corsConfig,    \* merged CorsOptions: [kind, list, credentials]
  req,           \* the request in flight: [origin, method, contentLength, contentType]
  res,           \* its response: [status, body, sent, headers]
  corsPc,        \* position of the CORS middleware for the request
  promiseValue,  \* value checkOrigin()'s promise fulfilled with
  isOriginAllowed, \* the argument processCorsRequest was called with
  nextCalls,     \* how many times the CORS middleware invoked next()
  predCalls      \* arguments config.origins (a function) was invoked with

corsVars == <<corsConfig, req, res, corsPc, promiseValue, isOriginAllowed, nextCalls,
              predCalls>>

VARIABLES
  securityConfig, \* merged SecurityConfig: which stages are enabled
  serverConfig,  \* ServerConfig.audit.enabled and the middlewares added by use()
  app,           \* the Express middleware stack, in registration order
  phase,         \* "idle", "running" (a stage holds the request) or "done"
  pos,           \* index in app of the stage the request is at
  ran            \* the stages that have run for the request, in order

chainVars == <<securityConfig, serverConfig, app, phase, pos, ran>>

VARIABLES
  now,           \* Date.now(), in milliseconds
  bucket,        \* the TokenBucket: [constructed, capacity, refillRate, tokens, lastRefill]
  lastCall,      \* the last TokenBucket method called and what it returned
  run,           \* the current run of consume(1) calls with no time elapsed
  options,       \* rateLimit(options): [constructed, windowMs, maxRequests]
  requests,      \* rateLimit's Map: identifier -> [count, resetTime]
  inflight,      \* the requests being served: slot -> [ip, state]
  forwarded,     \* identifier -> requests passed to next() in its current window
  granted        \* tokens handed out by consume since construction or reset

limitVars == <<now, bucket, lastCall, run, options, requests, inflight, forwarded, granted>>

VARIABLES
  sanInput,      \* the value handed to sanitizeObject
  sanOnce,       \* sanitizeObject(sanInput)
  sanTwice,      \* sanitizeObject(sanitizeObject(sanInput))
  sanPc          \* how many times sanitizeObject has been applied

sanVars == <<sanInput, sanOnce, sanTwice, sanPc>>

\* the state of the components a specification leaves alone
\* InMemoryAuditStorage and the last query made on it
VARIABLES
  maxEvents,      \* InMemoryAuditStorage.maxEvents
  events,         \* InMemoryAuditStorage.events
  saved,          \* history: the events handed to save(), in call order
  queried,        \* a query has returned since the last save
  filters,        \* the filters of that query
  result          \* the events that query returned

storeVars == <<maxEvents, events, saved, queried, filters, result>>

\* auditMiddleware, the AuditLogger behind it and the request it is handling
VARIABLES
  auditOptions,   \* the options of auditMiddleware and AuditLogger.enabled
  lastIndex,      \* lastIndex of each RegExp entry of options.excludePaths
  auditReq,       \* the request: path, method, query, body
  statusCode,     \* res.statusCode
  auditPc,        \* how far the request has come
  listening,      \* the 'finish' listener is registered on the response
  auditNext,      \* history: calls of next() for the request
  saveCalls,      \* history: the events handed to storage.save for the request
  saveOutcome,    \* what storage.save did
  logOutcome,     \* how the promise of AuditLogger.log settled
  errorLogged     \* logger.error('Failed to save audit event:') was called

auditVars == <<auditOptions, lastIndex, auditReq, statusCode, auditPc, listening, auditNext,
               saveCalls, saveOutcome, logOutcome, errorLogged>>

\* the origin callback of toExpressCorsOptions
VARIABLES
  expressDecision \* what the callback was handed for the request's origin

expressVars == <<expressDecision>>

extVars == <<sanVars, storeVars, auditVars, expressVars>>

vars == <<corsVars, chainVars, limitVars, extVars>>

(***************************************************************************)
(* Strings as sequences of characters                                      *)
(***************************************************************************)
RECURSIVE StringsUpTo(_)
StringsUpTo(n) ==
  IF n = 0 THEN {<<>>}
  ELSE LET shorter == StringsUpTo(n - 1)
       IN shorter \cup {Append(s, c) : s \in {t \in shorter : Len(t) = n - 1}, c \in OriginChars}

\* the strings of at most n characters drawn from chars
RECURSIVE StringsOver(_, _)
StringsOver(chars, n) ==
  IF n = 0 THEN {<<>>}
  ELSE LET shorter == StringsOver(chars, n - 1)
       IN shorter \cup {Append(s, c) : s \in {t \in shorter : Len(t) = n - 1}, c \in chars}

\* s occurs in t as a contiguous substring (String.prototype.includes)
IsSubstring(s, t) ==
  \E i \in 0..(Len(t) - Len(s)) : SubSeq(t, i + 1, i + Len(s)) = s

\* req.headers.origin: the header may be absent; a present header may be empty
NoOrigin == [present |-> FALSE, val |-> <<>>]
OriginHeader(s) == [present |-> TRUE, val |-> s]
Origins == {NoOrigin} \cup {OriginHeader(s) : s \in StringsUpTo(MaxOriginLen)}

\* JavaScript truthiness of req.headers.origin
Truthy(o) == o.present /\ o.val # <<>>

Methods == {"GET", "POST", "OPTIONS", "options"}

\* the maxSize the application passes to limitRequestSize
MaxSize == 1
\* req.headers['content-length'] is absent
NoContentLength == 0 - 1

ToUpperCase(m) == IF m = "options" THEN "OPTIONS" ELSE m

(***************************************************************************)
(* Response objects                                                        *)
(***************************************************************************)
NoHeaders == [n \in {} |-> <<>>]

NewResponse == [status |-> 200, body |-> "none", sent |-> FALSE, headers |-> NoHeaders]

SetHeader(r, name, value) ==
  [r EXCEPT !.headers = [n \in (DOMAIN r.headers) \cup {name} |->
                            IF n = name THEN value ELSE r.headers[n]]]

HasHeader(r, name) == name \in DOMAIN r.headers

\* res.status(code).json({error: ...})
JsonError(r, code) == [r EXCEPT !.status = code, !.body = "error", !.sent = TRUE]

\* res.status(code).end()
EndEmpty(r, code) == [r EXCEPT !.status = code, !.body = "empty", !.sent = TRUE]

(***************************************************************************)
(* Request values: strings, lists and maps                                 *)
(***************************************************************************)
\* a value of a request channel (body, query, params)
Undefined == [kind |-> "undefined", str |-> <<>>, entries |-> <<>>]
Str(s) == [kind |-> "string", str |-> s, entries |-> <<>>]
Num == [kind |-> "number", str |-> <<>>, entries |-> <<>>]
\* an array: entries without keys
Arr(items) ==
  [kind |-> "array", str |-> <<>>,
   entries |-> [i \in DOMAIN items |-> [key |-> <<>>, val |-> items[i]]]]
\* an object: entries in insertion order
Obj(entries) == [kind |-> "object", str |-> <<>>, entries |-> entries]
Entry(k, v) == [key |-> k, val |-> v]

\* obj[key] = value: replaces the value of an existing key, else appends
PutEntry(entries, k, v) ==
  IF \E i \in DOMAIN entries : entries[i].key = k
    THEN [i \in DOMAIN entries |-> IF entries[i].key = k THEN Entry(k, v) ELSE entries[i]]
    ELSE Append(entries, Entry(k, v))

RECURSIVE Flatten(_)
Flatten(ss) == IF ss = <<>> THEN <<>> ELSE Head(ss) \o Flatten(Tail(ss))

\* str.replace(/\0/g, '')
RECURSIVE RemoveNul(_)
RemoveNul(s) ==
  IF s = <<>> THEN <<>>
  ELSE IF Head(s) = "NUL" THEN RemoveNul(Tail(s))
  ELSE <<Head(s)>> \o RemoveNul(Tail(s))

\* validator.escape: the HTML entity of one character
EscapeChar(c) ==
  CASE c = "&" -> <<"&", "a", "m", "p", ";">>
    [] c = "<" -> <<"&", "l", "t", ";">>
    [] c = ">" -> <<"&", "g", "t", ";">>
    [] c = "\"" -> <<"&", "q", "u", "o", "t", ";">>
    [] c = "'" -> <<"&", "#", "x", "2", "7", ";">>
    [] OTHER -> <<c>>

\* validator.escape(str)
Escape(s) == Flatten([i \in DOMAIN s |-> EscapeChar(s[i])])

\* validator.trim(str)
RECURSIVE TrimLeft(_)
TrimLeft(s) == IF s # <<>> /\ Head(s) = " " THEN TrimLeft(Tail(s)) ELSE s
RECURSIVE TrimRight(_)
TrimRight(s) ==
  IF s # <<>> /\ s[Len(s)] = " " THEN TrimRight(SubSeq(s, 1, Len(s) - 1)) ELSE s
Trim(s) == TrimRight(TrimLeft(s))

\* sanitizeString(str)
SanitizeString(s) == IF s = <<>> THEN s ELSE Trim(Escape(RemoveNul(s)))

\* sanitizeObject(obj)
RECURSIVE SanitizeObject(_)
RECURSIVE SanitizeEntries(_, _)
SanitizeEntries(entries, acc) ==
  IF entries = <<>> THEN acc
  ELSE SanitizeEntries(Tail(entries),
                       PutEntry(acc, SanitizeString(Head(entries).key),
                                SanitizeObject(Head(entries).val)))
SanitizeObject(obj) ==
  CASE obj.kind = "array" ->
         [obj EXCEPT !.entries = [i \in DOMAIN obj.entries |->
                                    Entry(<<>>, SanitizeObject(obj.entries[i].val))]]
    [] obj.kind = "object" -> [obj EXCEPT !.entries = SanitizeEntries(obj.entries, <<>>)]
    [] obj.kind = "string" -> Str(SanitizeString(obj.str))
    [] OTHER -> obj

(***************************************************************************)
(* CORS configuration                                                      *)
(***************************************************************************)
AllowLists == {l \in SUBSET (StringsUpTo(MaxOriginLen) \ {<<>>}) : Cardinality(l) <= MaxListLen}

CorsConfigs ==
  {[kind |-> "star", list |-> {}, credentials |-> c] : c \in BOOLEAN}
  \cup {[kind |-> "function", list |-> {}, credentials |-> c] : c \in BOOLEAN}
  \cup {[kind |-> "list", list |-> l, credentials |-> c] : l \in AllowLists, c \in BOOLEAN}

\* developmentCors and the defaultCorsOptions: origins '*', credentials true
developmentCors == [kind |-> "star", list |-> {}, credentials |-> TRUE]

\* Array.prototype.includes over the configured origins: strict equality
IncludesMutant(list, s) == \E l \in list : IsSubstring(l, s)
Includes(list, s) == s \in list

\* what a call of config.origins(origin) can do when origins is a function
PredicateOutcomes == {"true", "false", "throw", "promise"}

(***************************************************************************)
(* Security and server configuration                                       *)
(***************************************************************************)
SecurityConfigs ==
  [helmet : BOOLEAN, xss : BOOLEAN, noSqlInjection : BOOLEAN, hpp : BOOLEAN,
   rateLimit : BOOLEAN, sanitization : BOOLEAN]

NoSecurity ==
  [helmet |-> FALSE, xss |-> FALSE, noSqlInjection |-> FALSE, hpp |-> FALSE,
   rateLimit |-> FALSE, sanitization |-> FALSE]

\* audit: ServerConfig.audit.enabled; limitRequestSize and validateContentType:
\* whether the application added the middleware with StellarServer.use()
ServerConfigs == [audit : BOOLEAN, limitRequestSize : BOOLEAN, validateContentType : BOOLEAN]

NoServerExtras == [audit |-> FALSE, limitRequestSize |-> FALSE, validateContentType |-> FALSE]

(***************************************************************************)
(* Express dispatch                                                        *)
(***************************************************************************)
Stage == IF phase = "running" /\ pos \in 1..Len(app) THEN app[pos] ELSE "none"

\* a stage starts running for the request
Enter(name) == Stage = name /\ ran' = Append(ran, name)

\* next(): Express hands the request to the following layer
CallNext ==
  /\ pos' = pos + 1
  /\ phase' = IF pos + 1 > Len(app) THEN "done" ELSE "running"

\* the stage answered the request itself and returned without next()
TerminateMutant == CallNext
Terminate == pos' = pos /\ phase' = "done"

\* the server before a request arrives
NoRequest == [origin |-> NoOrigin, method |-> "GET", contentLength |-> NoContentLength,
              contentType |-> "none", payload |-> Undefined, body |-> Undefined]

\* the response is finished and the connection is free for the next request
ResponseFinished ==
  /\ phase = "done"
  /\ req' = NoRequest
  /\ res' = NewResponse
  /\ phase' = "idle"
  /\ pos' = 0
  /\ ran' = <<>>
  /\ corsPc' = "idle"
  /\ promiseValue' = FALSE
  /\ isOriginAllowed' = FALSE
  /\ nextCalls' = 0
  /\ predCalls' = <<>>
  /\ UNCHANGED <<corsConfig, securityConfig, serverConfig, app, limitVars, extVars>>

\* a new request enters the stack
Receive(r) ==
  /\ phase = "idle"
  /\ req' = r
  /\ res' = NewResponse
  /\ phase' = "running"
  /\ pos' = 1
  /\ ran' = <<>>
  /\ corsPc' = "idle"
  /\ promiseValue' = FALSE
  /\ isOriginAllowed' = FALSE
  /\ nextCalls' = 0
  /\ predCalls' = <<>>
  /\ UNCHANGED <<corsConfig, securityConfig, serverConfig, app, limitVars, extVars>>

(***************************************************************************)
(* createCorsMiddleware                                                    *)
(***************************************************************************)
\* checkOrigin(): the middleware is invoked and the async function runs up
\* to its first suspension; outcome is what config.origins(origin) does
CorsMiddleware(outcome) ==
  /\ Stage = "cors"
  /\ corsPc = "idle"
  /\ ran' = Append(ran, "cors")
  /\ IF corsConfig.kind = "star"
        THEN corsPc' = "fulfilled" /\ promiseValue' = TRUE /\ UNCHANGED predCalls
      ELSE IF corsConfig.kind = "function"
        THEN IF ~Truthy(req.origin)
               THEN corsPc' = "fulfilled" /\ promiseValue' = FALSE /\ UNCHANGED predCalls
               ELSE /\ predCalls' = Append(predCalls, req.origin.val)
                    /\ corsPc' = CASE outcome = "throw" -> "rejected"
                                    [] outcome = "promise" -> "awaiting"
                                    [] OTHER -> "fulfilled"
                    /\ promiseValue' = (outcome = "true")
      ELSE /\ corsPc' = "fulfilled"
           /\ promiseValue' = IF Truthy(req.origin)
                                THEN Includes(corsConfig.list, req.origin.val)
                                ELSE FALSE
           /\ UNCHANGED predCalls
  /\ UNCHANGED <<corsConfig, req, res, isOriginAllowed, nextCalls, securityConfig,
                 serverConfig, app, phase, pos, limitVars, extVars>>

\* the promise returned by an asynchronous config.origins settles
PredicateSettle(settled) ==
  /\ Stage = "cors"
  /\ corsPc = "awaiting"
  /\ corsPc' = IF settled = "reject" THEN "rejected" ELSE "fulfilled"
  /\ promiseValue' = (settled = "true")
  /\ UNCHANGED <<corsConfig, req, res, isOriginAllowed, nextCalls, predCalls, chainVars,
                 limitVars, extVars>>

\* the headers processCorsRequest sets when the origin is allowed
CorsHeaders(r, cfg, origin) ==
  LET r1 == IF cfg.kind = "star"
              THEN SetHeader(r, "Access-Control-Allow-Origin", <<"*">>)
            ELSE IF Truthy(origin)
              THEN SetHeader(SetHeader(r, "Access-Control-Allow-Origin", origin.val),
                             "Vary", <<"Origin">>)
            ELSE r
      r2 == IF cfg.credentials
              THEN SetHeader(r1, "Access-Control-Allow-Credentials", <<"true">>)
              ELSE r1
      r3 == SetHeader(r2, "Access-Control-Allow-Methods", <<"methods">>)
      r4 == SetHeader(r3, "Access-Control-Allow-Headers", <<"allowedHeaders">>)
      r5 == SetHeader(r4, "Access-Control-Expose-Headers", <<"exposedHeaders">>)
  IN SetHeader(r5, "Access-Control-Max-Age", <<"maxAge">>)

\* non-preflight requests that processCorsRequest answers with 403
RejectsActualMutant(allowed, origin) == allowed /\ Truthy(origin)
RejectsActual(allowed, origin) == ~allowed /\ Truthy(origin)

\* processCorsRequest(isOriginAllowed)
ProcessCorsRequest(allowed) ==
  LET r == IF allowed THEN CorsHeaders(res, corsConfig, req.origin) ELSE res
  IN /\ isOriginAllowed' = allowed
     /\ IF ToUpperCase(req.method) = "OPTIONS"
          THEN /\ res' = IF allowed THEN EndEmpty(r, 204) ELSE JsonError(r, 403)
               /\ Terminate
               /\ UNCHANGED nextCalls
        ELSE IF RejectsActual(allowed, req.origin)
          THEN /\ res' = JsonError(r, 403)
               /\ Terminate
               /\ UNCHANGED nextCalls
        ELSE /\ res' = r
             /\ nextCalls' = nextCalls + 1
             /\ CallNext

\* .then((isOriginAllowed) => processCorsRequest(isOriginAllowed))
CorsThen ==
  /\ Stage = "cors"
  /\ corsPc = "fulfilled"
  /\ corsPc' = "done"
  /\ ProcessCorsRequest(promiseValue)
  /\ UNCHANGED <<corsConfig, req, promiseValue, predCalls, securityConfig, serverConfig,
                 app, ran, limitVars, extVars>>

\* .catch(() => processCorsRequest(false))
CorsCatch ==
  /\ Stage = "cors"
  /\ corsPc = "rejected"
  /\ corsPc' = "done"
  /\ ProcessCorsRequest(FALSE)
  /\ UNCHANGED <<corsConfig, req, promiseValue, predCalls, securityConfig, serverConfig,
                 app, ran, limitVars, extVars>>

(***************************************************************************)
(* Rate limiters: state before either is constructed                       *)
(***************************************************************************)
NoBucket == [constructed |-> FALSE, capacity |-> 0, refillRate |-> 0, tokens |-> 0,
             lastRefill |-> 0]
NoCall == [op |-> "none", ok |-> FALSE, value |-> 0]
NoRun == [ok |-> 0, failed |-> FALSE]
NoOptions == [constructed |-> FALSE, windowMs |-> 0, maxRequests |-> 0]
NoRecords == [k \in {} |-> [count |-> 0, resetTime |-> 0]]
Slots == 1..MaxInflight
NoInflight == [i \in Slots |-> [ip |-> "", state |-> "free"]]

NoSanitizer ==
  /\ sanInput = Undefined
  /\ sanOnce = Undefined
  /\ sanTwice = Undefined
  /\ sanPc = 0

\* a filter or option that was not given, and one that was
Absent == [present |-> FALSE, val |-> 0]
Given(v) == [present |-> TRUE, val |-> v]
NoFilters ==
  [startDate |-> Absent, endDate |-> Absent, actorId |-> Absent, eventType |-> Absent,
   severity |-> Absent, resourceType |-> Absent, resourceId |-> Absent, result |-> Absent,
   limit |-> Absent, offset |-> Absent]

NoStore ==
  /\ maxEvents = 0
  /\ events = <<>>
  /\ saved = <<>>
  /\ queried = FALSE
  /\ filters = NoFilters
  /\ result = <<>>

NoAuditOptions ==
  [enabled |-> FALSE, includeBody |-> FALSE, includeQuery |-> FALSE, excludePaths |-> <<>>]
NoAuditRequest == [path |-> <<>>, method |-> "GET", query |-> Obj(<<>>), body |-> Undefined]

\* no request is being audited
NoAuditRun ==
  /\ auditReq = NoAuditRequest
  /\ statusCode = 200
  /\ auditPc = "idle"
  /\ listening = FALSE
  /\ auditNext = 0
  /\ saveCalls = <<>>
  /\ saveOutcome = "none"
  /\ logOutcome = "none"
  /\ errorLogged = FALSE

NoAudit ==
  /\ auditOptions = NoAuditOptions
  /\ lastIndex = <<>>
  /\ NoAuditRun

\* the components outside the pipeline and the rate limiters are not in use
NoExpress == expressDecision = "none"

NoExtras == NoSanitizer /\ NoStore /\ NoAudit /\ NoExpress

NoLimiter ==
  /\ now = 0
  /\ bucket = NoBucket
  /\ lastCall = NoCall
  /\ run = NoRun
  /\ options = NoOptions
  /\ requests = NoRecords
  /\ inflight = NoInflight
  /\ forwarded = [k \in {} |-> 0]
  /\ granted = [amount |-> 0, base |-> 0, since |-> 0]

NoPipeline ==
  /\ corsConfig = developmentCors
  /\ req = NoRequest
  /\ res = NewResponse
  /\ corsPc = "idle"
  /\ promiseValue = FALSE
  /\ isOriginAllowed = FALSE
  /\ nextCalls = 0
  /\ predCalls = <<>>
  /\ securityConfig = NoSecurity
  /\ serverConfig = NoServerExtras
  /\ app = <<>>
  /\ phase = "idle"
  /\ pos = 0
  /\ ran = <<>>

(***************************************************************************)
(* The CORS middleware on its own                                          *)
(***************************************************************************)
CorsRequests ==
  {[origin |-> o, method |-> m, contentLength |-> NoContentLength, contentType |-> "none",
    payload |-> Undefined, body |-> Undefined] :
     o \in Origins, m \in Methods}

InitCors ==
  /\ corsConfig \in CorsConfigs
  /\ req = NoRequest
  /\ res = NewResponse
  /\ corsPc = "idle"
  /\ promiseValue = FALSE
  /\ isOriginAllowed = FALSE
  /\ nextCalls = 0
  /\ predCalls = <<>>
  /\ securityConfig = NoSecurity
  /\ serverConfig = NoServerExtras
  /\ app = <<"cors">>
  /\ phase = "idle"
  /\ pos = 0
  /\ ran = <<>>
  /\ NoLimiter
  /\ NoExtras

ReceiveCors == \E r \in CorsRequests : Receive(r)
CheckOrigin == \E outcome \in PredicateOutcomes : CorsMiddleware(outcome)
AwaitPredicate == \E settled \in {"true", "false", "reject"} : PredicateSettle(settled)

NextCors ==
  \/ ReceiveCors
  \/ CheckOrigin
  \/ AwaitPredicate
  \/ CorsThen
  \/ CorsCatch
  \/ ResponseFinished

SpecCors == InitCors /\ [][NextCors]_vars

\* toExpressCorsOptions(options).origin(origin, callback): what callback is
\* handed, or "threw"; answer is what config.origins(origin || '') does
ExpressOrigin(cfg, origin, answer) ==
  IF cfg.kind = "star" THEN "true"
  ELSE IF cfg.kind = "function"
    THEN CASE answer = "throw" -> "threw"
           [] answer = "reject" -> "false"
           [] OTHER -> answer
  ELSE IF ~Truthy(origin) \/ Includes(cfg.list, origin.val) THEN "true" ELSE "false"

\* the answers config.origins can give the callback: the one it gave the
\* middleware for the same origin, any when the middleware did not ask
PredicateAnswers ==
  IF predCalls = <<>> THEN {"true", "false", "throw", "reject"}
  ELSE IF corsPc = "rejected" THEN {"throw", "reject"}
  ELSE IF promiseValue THEN {"true"} ELSE {"false"}

\* the origin callback runs for the origin the middleware has decided on
OriginCallback(answer) ==
  /\ corsPc \in {"fulfilled", "rejected"}
  /\ expressDecision = "none"
  /\ answer \in PredicateAnswers
  /\ expressDecision' = ExpressOrigin(corsConfig, req.origin, answer)
  /\ UNCHANGED <<corsVars, chainVars, limitVars, sanVars, storeVars, auditVars>>

InitExpressCors ==
  /\ corsConfig \in CorsConfigs
  /\ req \in CorsRequests
  /\ res = NewResponse
  /\ corsPc = "idle"
  /\ promiseValue = FALSE
  /\ isOriginAllowed = FALSE
  /\ nextCalls = 0
  /\ predCalls = <<>>
  /\ securityConfig = NoSecurity
  /\ serverConfig = NoServerExtras
  /\ app = <<"cors">>
  /\ phase = "running"
  /\ pos = 1
  /\ ran = <<>>
  /\ NoLimiter
  /\ NoExtras

ExpressCallback == \E answer \in {"true", "false", "throw", "reject"} : OriginCallback(answer)

NextExpressCors ==
  \/ CheckOrigin
  \/ AwaitPredicate
  \/ ExpressCallback

\* the origin check of createCorsMiddleware and the origin callback of
\* toExpressCorsOptions on the same policy and origin
SpecExpressCors == InitExpressCors /\ [][NextExpressCors]_vars

\* processCorsRequest throws inside .then(): at its first res.setHeader, or
\* in next() after next was invoked; the promise of .then() rejects and
\* .catch() runs processCorsRequest(false)
ThenThrows(where) ==
  /\ Stage = "cors"
  /\ corsPc = "fulfilled"
  /\ corsPc' = "rejected"
  /\ isOriginAllowed' = promiseValue
  /\ IF where = "setHeader"
       THEN /\ promiseValue
            /\ UNCHANGED <<res, nextCalls>>
       ELSE /\ ToUpperCase(req.method) # "OPTIONS"
            /\ ~RejectsActual(promiseValue, req.origin)
            /\ res' = IF promiseValue THEN CorsHeaders(res, corsConfig, req.origin) ELSE res
            /\ nextCalls' = nextCalls + 1
  /\ UNCHANGED <<corsConfig, req, promiseValue, predCalls, chainVars, limitVars, extVars>>

CorsThenThrows == \E where \in {"setHeader", "next"} : ThenThrows(where)

NextCorsThrows ==
  \/ ReceiveCors
  \/ CheckOrigin
  \/ AwaitPredicate
  \/ CorsThen
  \/ CorsThenThrows
  \/ CorsCatch
  \/ ResponseFinished

\* the CORS middleware with a response or a next() that can throw
SpecCorsThrows == InitCors /\ [][NextCorsThrows]_vars

(***************************************************************************)
(* The middleware stack StellarServer assembles                            *)
(***************************************************************************)
Opt(enabled, name) == IF enabled THEN <<name>> ELSE <<>>

\* createSecurityMiddleware: the enabled stages, in the order they are pushed
CreateSecurityMiddlewareMutant(cfg) ==
  Opt(cfg.helmet, "helmet") \o Opt(cfg.xss, "xss")
    \o Opt(cfg.noSqlInjection, "mongoSanitize") \o Opt(cfg.rateLimit, "rateLimiter")
    \o Opt(cfg.hpp, "hpp") \o Opt(cfg.sanitization, "sanitizeInputs")
CreateSecurityMiddleware(cfg) ==
  Opt(cfg.helmet, "helmet") \o Opt(cfg.xss, "xss")
    \o Opt(cfg.noSqlInjection, "mongoSanitize") \o Opt(cfg.hpp, "hpp")
    \o Opt(cfg.rateLimit, "rateLimiter") \o Opt(cfg.sanitization, "sanitizeInputs")

\* StellarServer.setupMiddleware
SetupMiddleware(sec, srv) ==
  <<"requestId", "cors">> \o CreateSecurityMiddleware(sec)
    \o <<"json", "urlencoded", "requestLogger">> \o Opt(srv.audit, "audit")

\* setupMiddleware, then use() of the application's middlewares, then the
\* route registered by registerService
BuildApp(sec, srv) ==
  SetupMiddleware(sec, srv)
    \o Opt(srv.limitRequestSize, "limitRequestSize")
    \o Opt(srv.validateContentType, "validateContentType")
    \o <<"route">>

\* a stage that only annotates the request or response and calls next()
PassThrough(name) ==
  /\ Enter(name)
  /\ CallNext
  /\ UNCHANGED <<corsVars, securityConfig, serverConfig, app, limitVars, extVars>>

\* requestId sets X-Request-ID and calls next()
RequestId ==
  /\ Enter("requestId")
  /\ res' = SetHeader(res, "X-Request-ID", <<"id">>)
  /\ CallNext
  /\ UNCHANGED <<corsConfig, req, corsPc, promiseValue, isOriginAllowed, nextCalls,
                 predCalls, securityConfig, serverConfig, app, limitVars, extVars>>

\* helmet(helmetOptions) sets the security response headers and calls next()
Helmet ==
  /\ Enter("helmet")
  /\ res' = SetHeader(res, "Strict-Transport-Security", <<"hsts">>)
  /\ CallNext
  /\ UNCHANGED <<corsConfig, req, corsPc, promiseValue, isOriginAllowed, nextCalls,
                 predCalls, securityConfig, serverConfig, app, limitVars, extVars>>

\* a stage that rewrites req.body and calls next()
SetBody(name, value) ==
  /\ Enter(name)
  /\ req' = [req EXCEPT !.body = value]
  /\ CallNext
  /\ UNCHANGED <<corsConfig, res, corsPc, promiseValue, isOriginAllowed, nextCalls,
                 predCalls, securityConfig, serverConfig, app, limitVars, extVars>>

\* xss(): the strings of the value with '<' written as &lt; and trimmed
XssString(s) ==
  Trim(Flatten([i \in DOMAIN s |-> IF s[i] = "<" THEN <<"&", "l", "t", ";">> ELSE <<s[i]>>]))
RECURSIVE XssClean(_)
XssClean(v) ==
  CASE v.kind = "string" -> Str(XssString(v.str))
    [] v.kind \in {"array", "object"} ->
         [v EXCEPT !.entries =
            [i \in DOMAIN v.entries |->
               Entry(XssString(v.entries[i].key), XssClean(v.entries[i].val))]]
    [] OTHER -> v

\* xss() cleans req.body when there is one
Xss == SetBody("xss", IF req.body = Undefined THEN req.body ELSE XssClean(req.body))

\* mongoSanitize({replaceWith: '_'}): a leading '$' and every '.' of a key
\* become '_'
NeutralizeKey(k) ==
  [i \in DOMAIN k |-> IF (i = 1 /\ k[i] = "$") \/ k[i] = "." THEN "_" ELSE k[i]]
RECURSIVE MongoSanitizeValue(_), MongoSanitizeEntries(_, _)
MongoSanitizeEntries(entries, acc) ==
  IF entries = <<>> THEN acc
  ELSE MongoSanitizeEntries(Tail(entries),
         PutEntry(acc, NeutralizeKey(Head(entries).key), MongoSanitizeValue(Head(entries).val)))
MongoSanitizeValue(v) ==
  CASE v.kind = "array" ->
         [v EXCEPT !.entries =
            [i \in DOMAIN v.entries |-> Entry(<<>>, MongoSanitizeValue(v.entries[i].val))]]
    [] v.kind = "object" -> Obj(MongoSanitizeEntries(v.entries, <<>>))
    [] OTHER -> v

\* mongoSanitize sanitizes req.body when there is one
MongoSanitize ==
  SetBody("mongoSanitize",
          IF req.body = Undefined THEN req.body ELSE MongoSanitizeValue(req.body))

Hpp == PassThrough("hpp")

\* sanitizeInputs: if (req.body) req.body = sanitizeObject(req.body)
SanitizeInputs ==
  SetBody("sanitizeInputs",
          IF req.body = Undefined THEN req.body ELSE SanitizeObject(req.body))

\* express.json(): a JSON request body is parsed into req.body; any other
\* request gets req.body = req.body || {}
IsJson(ct) == ct \in {"application/json", "application/json; charset=utf-8"}
JsonParser ==
  SetBody("json",
          IF IsJson(req.contentType) /\ req.payload # Undefined THEN req.payload
          ELSE IF req.body = Undefined THEN Obj(<<>>) ELSE req.body)

\* express.urlencoded(): not a form body, req.body = req.body || {}
UrlencodedParser ==
  SetBody("urlencoded", IF req.body = Undefined THEN Obj(<<>>) ELSE req.body)

RequestLogger == PassThrough("requestLogger")
AuditMiddleware == PassThrough("audit")

\* a stage answers with an error and returns without calling next()
Reject(name, code) ==
  /\ Enter(name)
  /\ res' = JsonError(res, code)
  /\ Terminate
  /\ UNCHANGED <<corsConfig, req, corsPc, promiseValue, isOriginAllowed, nextCalls,
                 predCalls, securityConfig, serverConfig, app, limitVars, extVars>>

\* createRateLimiter: express-rate-limit decides whether the key is over its
\* limit; the handler configured here answers 429
RateLimiter(exceeded) ==
  IF exceeded THEN Reject("rateLimiter", 429) ELSE PassThrough("rateLimiter")

\* limitRequestSize(maxSize)
LimitRequestSize ==
  IF req.contentLength # NoContentLength /\ req.contentLength > MaxSize
    THEN Reject("limitRequestSize", 413)
    ELSE PassThrough("limitRequestSize")

\* validateContentType(): allowedTypes.some(type => contentType.includes(type))
\* with the default allowedTypes ['application/json']
ContentTypes == {"none", "application/json", "application/json; charset=utf-8", "text/plain"}
ContentTypeAllowed(ct) == ct \in {"application/json", "application/json; charset=utf-8"}
ValidateContentType ==
  IF req.method \in {"GET", "HEAD"} THEN PassThrough("validateContentType")
  ELSE IF req.contentType = "none" THEN Reject("validateContentType", 400)
  ELSE IF ~ContentTypeAllowed(req.contentType) THEN Reject("validateContentType", 415)
  ELSE PassThrough("validateContentType")

\* the route handler answers the request
RouteHandler ==
  /\ Enter("route")
  /\ res' = [res EXCEPT !.body = "data", !.sent = TRUE]
  /\ Terminate
  /\ UNCHANGED <<corsConfig, req, corsPc, promiseValue, isOriginAllowed, nextCalls,
                 predCalls, securityConfig, serverConfig, app, limitVars, extVars>>

(***************************************************************************)
(* The whole chain                                                         *)
(***************************************************************************)
ChainOrigins == {NoOrigin, OriginHeader(<<"g">>), OriginHeader(<<"x">>)}
ChainCorsConfigs ==
  {developmentCors,
   [kind |-> "list", list |-> {<<"g">>}, credentials |-> TRUE],
   [kind |-> "function", list |-> {}, credentials |-> TRUE]}
\* {"$gt": "", "n": "<a>"}: an operator key and markup in a string value
ScenarioC ==
  Obj(<<Entry(<<"$", "g", "t">>, Str(<<>>)), Entry(<<"n">>, Str(<<"<", "a", ">">>))>>)
\* the JSON bodies sent with a request: a POST of JSON carries one
Payloads(m, ct) ==
  IF m = "POST" /\ IsJson(ct)
    THEN {ScenarioC, Obj(<<Entry(<<"n">>, Str(<<"a">>))>>)}
    ELSE {Undefined}
ChainRequests ==
  UNION {{[origin |-> o, method |-> m, contentLength |-> n, contentType |-> ct,
           payload |-> p, body |-> Undefined] : p \in Payloads(m, ct)} :
           o \in ChainOrigins, m \in {"GET", "POST", "OPTIONS"},
           n \in {NoContentLength, MaxSize + 1},
           ct \in {"none", "application/json", "text/plain"}}

InitChain ==
  /\ corsConfig \in ChainCorsConfigs
  /\ req = NoRequest
  /\ res = NewResponse
  /\ corsPc = "idle"
  /\ promiseValue = FALSE
  /\ isOriginAllowed = FALSE
  /\ nextCalls = 0
  /\ predCalls = <<>>
  /\ securityConfig \in SecurityConfigs
  /\ serverConfig \in ServerConfigs
  /\ app = BuildApp(securityConfig, serverConfig)
  /\ phase = "idle"
  /\ pos = 0
  /\ ran = <<>>
  /\ NoLimiter
  /\ NoExtras

ReceiveChain == \E r \in ChainRequests : Receive(r)
RateLimiterStage == \E exceeded \in BOOLEAN : RateLimiter(exceeded)

NextChain ==
  \/ ReceiveChain
  \/ RequestId
  \/ CheckOrigin
  \/ AwaitPredicate
  \/ CorsThen
  \/ CorsCatch
  \/ Helmet
  \/ Xss
  \/ MongoSanitize
  \/ Hpp
  \/ RateLimiterStage
  \/ SanitizeInputs
  \/ JsonParser
  \/ UrlencodedParser
  \/ RequestLogger
  \/ AuditMiddleware
  \/ LimitRequestSize
  \/ ValidateContentType
  \/ RouteHandler
  \/ ResponseFinished

SpecChain == InitChain /\ [][NextChain]_vars

(***************************************************************************)
(* TokenBucket                                                             *)
(***************************************************************************)
\* tokens are kept in thousandths, so that timePassed (ms) / 1000 * refillRate
\* is exact
Scale == 1000

Min(a, b) == IF a <= b THEN a ELSE b

Capacities == {1, 2, 5}
RefillRates == {1, 2}
\* the initialTokens argument; the default is capacity
InitialTokens(capacity) == {0 - 1, 0, capacity, capacity + 1}
Costs == {1, 2}
TickSteps == {500, 1000}

\* constructor(capacity, refillRate, initialTokens = capacity)
NewTokenBucket(capacity, refillRate, initialTokens, t) ==
  [constructed |-> TRUE, capacity |-> capacity, refillRate |-> refillRate,
   tokens |-> initialTokens * Scale, lastRefill |-> t]

\* a run of consume(1) calls begins: the tokens the bucket holds and the time
\* since its last refill
StartRun(b, t) == [ok |-> 0, failed |-> FALSE, before |-> b.tokens, idle |-> t - b.lastRefill]

\* refill()
RefillPerMillisecond(b, t) ==
  [b EXCEPT !.tokens = Min(b.capacity * Scale, b.tokens + (t - b.lastRefill) * b.refillRate * 1000),
            !.lastRefill = t]
RefillMutant(b, t) ==
  [b EXCEPT !.tokens = b.tokens + (t - b.lastRefill) * b.refillRate, !.lastRefill = t]
Refill(b, t) ==
  [b EXCEPT !.tokens = Min(b.capacity * Scale, b.tokens + (t - b.lastRefill) * b.refillRate),
            !.lastRefill = t]

\* consume(tokens): the bucket after the call and the value returned
ConsumeResultMutant(b, t, cost) ==
  LET r == Refill(b, t)
  IN IF r.tokens >= cost * Scale
       THEN [bucket |-> [r EXCEPT !.tokens = r.tokens - cost * Scale], ok |-> TRUE]
       ELSE [bucket |-> [r EXCEPT !.tokens = 0], ok |-> FALSE]
ConsumeResult(b, t, cost) ==
  LET r == Refill(b, t)
  IN IF r.tokens >= cost * Scale
       THEN [bucket |-> [r EXCEPT !.tokens = r.tokens - cost * Scale], ok |-> TRUE]
       ELSE [bucket |-> r, ok |-> FALSE]

\* consume(tokens)
Consume(cost) ==
  /\ bucket.constructed
  /\ LET c == ConsumeResult(bucket, now, cost)
     IN /\ bucket' = c.bucket
        /\ lastCall' = [op |-> "consume", ok |-> c.ok, value |-> cost]
        /\ run' = IF cost # 1 THEN StartRun(c.bucket, now)
                  ELSE IF c.ok THEN [run EXCEPT !.ok = run.ok + 1]
                  ELSE [run EXCEPT !.failed = TRUE]
        /\ granted' = IF c.ok THEN [granted EXCEPT !.amount = granted.amount + cost]
                      ELSE granted
  /\ UNCHANGED <<now, options, requests, inflight, forwarded, corsVars, chainVars, extVars>>

\* getTokens()
GetTokens ==
  /\ bucket.constructed
  /\ bucket' = Refill(bucket, now)
  /\ lastCall' = [op |-> "getTokens", ok |-> TRUE, value |-> bucket'.tokens \div Scale]
  /\ UNCHANGED <<now, run, granted, options, requests, inflight, forwarded, corsVars,
                 chainVars, extVars>>

\* reset()
Reset ==
  /\ bucket.constructed
  /\ bucket' = [bucket EXCEPT !.tokens = bucket.capacity * Scale, !.lastRefill = now]
  /\ lastCall' = [op |-> "reset", ok |-> TRUE, value |-> 0]
  /\ run' = StartRun(bucket', now)
  /\ granted' = [amount |-> 0, base |-> bucket.capacity, since |-> now]
  /\ UNCHANGED <<now, options, requests, inflight, forwarded, corsVars, chainVars, extVars>>

\* time passes
Tick(d) ==
  /\ bucket.constructed \/ options.constructed
  /\ now + d <= MaxClock
  /\ now' = now + d
  /\ run' = IF bucket.constructed THEN StartRun(bucket, now') ELSE NoRun
  /\ UNCHANGED <<bucket, lastCall, granted, options, requests, inflight, forwarded,
                 corsVars, chainVars, extVars>>

InitBucket ==
  /\ now = 0
  /\ \E capacity \in Capacities, refillRate \in RefillRates :
       \E initialTokens \in InitialTokens(capacity) :
         /\ bucket = NewTokenBucket(capacity, refillRate, initialTokens, now)
         /\ granted = [amount |-> 0, base |-> initialTokens, since |-> now]
  /\ lastCall = NoCall
  /\ run = StartRun(bucket, now)
  /\ options = NoOptions
  /\ requests = NoRecords
  /\ inflight = NoInflight
  /\ forwarded = [k \in {} |-> 0]

(***************************************************************************)
(* rateLimit(options)                                                      *)
(***************************************************************************)
WindowSizes == {1000}
MaxRequestsValues == {0, 1, 2}
\* req.ip; "" stands for a request without a client address
Ips == {"", "10.0.0.1"}

\* req.ip || 'unknown'
Identifier(ip) == IF ip = "" THEN "unknown" ELSE ip

\* requests.set(identifier, record)
SetRecordMutant(map, k, v) == [x \in (DOMAIN map) \cup {k} |-> v]
SetRecord(map, k, v) == [x \in (DOMAIN map) \cup {k} |-> IF x = k THEN v ELSE map[x]]

\* record.count++
IncrementMutant(count) == count
Increment(count) == count + 1

\* a request reaches the server
Arrive(i, ip) ==
  /\ options.constructed
  /\ inflight[i].state = "free"
  /\ inflight' = [inflight EXCEPT ![i] = [ip |-> ip, state |-> "pending"]]
  /\ UNCHANGED <<now, bucket, lastCall, run, granted, options, requests, forwarded,
                 corsVars, chainVars, extVars>>

\* the middleware returned by rateLimit(options) handles request i
RateLimit(i) ==
  /\ options.constructed
  /\ inflight[i].state = "pending"
  /\ LET identifier == Identifier(inflight[i].ip)
         hasRecord == identifier \in DOMAIN requests
     IN IF ~hasRecord \/ now > requests[identifier].resetTime
          THEN /\ requests' = SetRecord(requests, identifier,
                                        [count |-> 1, resetTime |-> now + options.windowMs])
               /\ forwarded' = SetRecord(forwarded, identifier, 1)
               /\ inflight' = [inflight EXCEPT ![i].state = "forwarded"]
        ELSE IF requests[identifier].count >= options.maxRequests
          THEN /\ inflight' = [inflight EXCEPT ![i].state = "rejected429"]
               /\ UNCHANGED <<requests, forwarded>>
        ELSE /\ requests' = [requests EXCEPT ![identifier].count = Increment(@)]
             /\ forwarded' = [forwarded EXCEPT ![identifier] = @ + 1]
             /\ inflight' = [inflight EXCEPT ![i].state = "forwarded"]
  /\ UNCHANGED <<now, bucket, lastCall, run, granted, options, corsVars, chainVars, extVars>>

\* the response of request i is finished
Finish(i) ==
  /\ inflight[i].state \in {"forwarded", "rejected429"}
  /\ inflight' = [inflight EXCEPT ![i] = [ip |-> "", state |-> "free"]]
  /\ UNCHANGED <<now, bucket, lastCall, run, granted, options, requests, forwarded,
                 corsVars, chainVars, extVars>>

InitRateLimit ==
  /\ now = 0
  /\ bucket = NoBucket
  /\ granted = [amount |-> 0, base |-> 0, since |-> 0]
  /\ lastCall = NoCall
  /\ run = NoRun
  /\ options \in [constructed : {TRUE}, windowMs : WindowSizes, maxRequests : MaxRequestsValues]
  /\ requests = NoRecords
  /\ inflight = NoInflight
  /\ forwarded = [k \in {} |-> 0]

(***************************************************************************)
(* The rate limiters under concurrent requests                             *)
(***************************************************************************)
InitLimit == NoPipeline /\ NoExtras /\ (InitBucket \/ InitRateLimit)

ConsumeCall == \E cost \in Costs : Consume(cost)
TimePasses == \E d \in TickSteps : Tick(d)
RequestArrives == \E i \in Slots, ip \in Ips : Arrive(i, ip)
RateLimitHandler == \E i \in Slots : RateLimit(i)
RequestFinishes == \E i \in Slots : Finish(i)

NextLimit ==
  \/ ConsumeCall
  \/ GetTokens
  \/ Reset
  \/ TimePasses
  \/ RequestArrives
  \/ RateLimitHandler
  \/ RequestFinishes

SpecLimit == InitLimit /\ [][NextLimit]_vars

(***************************************************************************)
(* sanitizeObject applied once and twice                                   *)
(***************************************************************************)
\* a letter, the characters validator.escape rewrites, whitespace and NUL
SanChars == {"a", "&", "<", " ", "NUL"}
SanStrings == StringsOver(SanChars, MaxStrLen)
ShortStrings == StringsOver(SanChars, 1)
SanLeaves == {Str(t) : t \in ShortStrings} \cup {Num}

\* sequences of at most n entries with pairwise distinct keys
RECURSIVE EntrySeqs(_, _, _)
EntrySeqs(keys, vals, n) ==
  IF n = 0 THEN {<<>>}
  ELSE LET shorter == EntrySeqs(keys, vals, n - 1)
       IN shorter \cup
          {es \in {Append(e, Entry(k, v)) : e \in {f \in shorter : Len(f) = n - 1}, k \in keys, v \in vals} :
             \A i, j \in DOMAIN es : es[i].key = es[j].key => i = j}

SanObjects == {Obj(es) : es \in EntrySeqs(ShortStrings, SanLeaves, MaxEntries)}
SanArrays == {Arr(<<v>>) : v \in SanLeaves} \cup {Arr(<<v, w>>) : v, w \in SanLeaves}
\* an object or array inside an object or array
SanNested ==
  {Obj(<<Entry(k, Obj(<<Entry(j, v)>>))>>) : k, j \in ShortStrings, v \in SanLeaves}
  \cup {Arr(<<Obj(<<Entry(k, v)>>)>>) : k \in ShortStrings, v \in SanLeaves}
  \cup {Obj(<<Entry(k, Arr(<<v>>))>>) : k \in ShortStrings, v \in SanLeaves}

SanInputs == {Str(t) : t \in SanStrings} \cup {Num} \cup SanObjects \cup SanArrays \cup SanNested

InitSanitize ==
  /\ sanInput \in SanInputs
  /\ sanOnce = Undefined
  /\ sanTwice = Undefined
  /\ sanPc = 0
  /\ NoPipeline
  /\ NoLimiter
  /\ NoStore
  /\ NoAudit
  /\ NoExpress

\* req.body = sanitizeObject(req.body)
SanitizeFirst ==
  /\ sanPc = 0
  /\ sanOnce' = SanitizeObject(sanInput)
  /\ sanPc' = 1
  /\ UNCHANGED <<sanInput, sanTwice, corsVars, chainVars, limitVars, storeVars, auditVars,
                 expressVars>>

\* the sanitized value is sanitized again
SanitizeSecond ==
  /\ sanPc = 1
  /\ sanTwice' = SanitizeObject(sanOnce)
  /\ sanPc' = 2
  /\ UNCHANGED <<sanInput, sanOnce, corsVars, chainVars, limitVars, storeVars, auditVars,
                 expressVars>>

NextSanitize ==
  \/ SanitizeFirst
  \/ SanitizeSecond

SpecSanitize == InitSanitize /\ [][NextSanitize]_vars

(***************************************************************************)
(* InMemoryAuditStorage                                                    *)
(***************************************************************************)
\* filters.limit || 100
DefaultLimit == 100

\* event.timestamp.getTime()
Timestamps == {1, 2}
MaxEventsValues == {0, 1, 2}

\* what an event is about, apart from its time: a read by a signed-in user
\* and a failed login by an anonymous caller
EventKinds ==
  {[type |-> "data.read", severity |-> "info", actorId |-> Given("u1"),
    resource |-> [present |-> TRUE, type |-> "users", id |-> Given("7")],
    result |-> "success"],
   [type |-> "auth.login.failure", severity |-> "warning", actorId |-> Absent,
    resource |-> [present |-> FALSE, type |-> "", id |-> Absent],
    result |-> "failure"]}
WithTimestamp(k, t) ==
  [timestamp |-> t, type |-> k.type, severity |-> k.severity, actorId |-> k.actorId,
   resource |-> k.resource, result |-> k.result]
AuditEvents == {WithTimestamp(k, t) : k \in EventKinds, t \in Timestamps}

AuditQueryFilters ==
  [startDate : {Absent, Given(2)}, endDate : {Absent, Given(1)},
   actorId : {Absent, Given(""), Given("u1")},
   eventType : {Absent, Given("data.read")}, severity : {Absent, Given("warning")},
   resourceType : {Absent, Given("users")}, resourceId : {Absent, Given("7")},
   result : {Absent, Given("failure")},
   limit : {Absent, Given(0), Given(1)}, offset : {Absent, Given(1)}]

\* JavaScript truthiness of an optional string and of an optional number
TruthyString(f) == f.present /\ f.val # ""
TruthyNumber(f) == f.present /\ f.val # 0

\* Array.prototype.slice(start) and slice(start, end)
SliceFrom(s, start) ==
  IF start < 0 THEN SubSeq(s, Len(s) - Min(0 - start, Len(s)) + 1, Len(s))
  ELSE SubSeq(s, start + 1, Len(s))
Slice(s, start, end) == SubSeq(s, start + 1, Min(end, Len(s)))

\* save(event)
Push(stored, max, e) ==
  LET pushed == Append(stored, e)
  IN IF Len(pushed) > max THEN SliceFrom(pushed, 0 - max) ELSE pushed

\* the comparator of filtered.sort
CompareMutant(a, b) == a.timestamp - b.timestamp
Compare(a, b) == b.timestamp - a.timestamp

\* Array.prototype.sort with the comparator: stable
RECURSIVE Insert(_, _)
Insert(s, x) ==
  IF s = <<>> THEN <<x>>
  ELSE IF Compare(Head(s), x) <= 0 THEN <<Head(s)>> \o Insert(Tail(s), x)
  ELSE <<x>> \o s
RECURSIVE Sort(_)
Sort(s) == IF s = <<>> THEN <<>> ELSE Insert(Sort(SubSeq(s, 1, Len(s) - 1)), s[Len(s)])

\* e.actor.id === v, e.resource?.type === v, e.resource?.id === v
OptionalIs(field, v) == field.present /\ field.val = v

\* query(filters)
Query(stored, f) ==
  LET f1 == IF f.startDate.present
              THEN SelectSeq(stored, LAMBDA e : e.timestamp >= f.startDate.val) ELSE stored
      f2 == IF f.endDate.present
              THEN SelectSeq(f1, LAMBDA e : e.timestamp <= f.endDate.val) ELSE f1
      f3 == IF TruthyString(f.actorId)
              THEN SelectSeq(f2, LAMBDA e : OptionalIs(e.actorId, f.actorId.val)) ELSE f2
      f4 == IF TruthyString(f.eventType)
              THEN SelectSeq(f3, LAMBDA e : e.type = f.eventType.val) ELSE f3
      f5 == IF TruthyString(f.severity)
              THEN SelectSeq(f4, LAMBDA e : e.severity = f.severity.val) ELSE f4
      f6 == IF TruthyString(f.resourceType)
              THEN SelectSeq(f5, LAMBDA e : e.resource.present /\ e.resource.type = f.resourceType.val)
              ELSE f5
      f7 == IF TruthyString(f.resourceId)
              THEN SelectSeq(f6, LAMBDA e : e.resource.present
                                            /\ OptionalIs(e.resource.id, f.resourceId.val))
              ELSE f6
      f8 == IF TruthyString(f.result)
              THEN SelectSeq(f7, LAMBDA e : e.result = f.result.val) ELSE f7
      offset == IF TruthyNumber(f.offset) THEN f.offset.val ELSE 0
      limit == IF TruthyNumber(f.limit) THEN f.limit.val ELSE DefaultLimit
  IN Slice(Sort(f8), offset, offset + limit)

InitStore ==
  /\ maxEvents \in MaxEventsValues
  /\ events = <<>>
  /\ saved = <<>>
  /\ queried = FALSE
  /\ filters = NoFilters
  /\ result = <<>>
  /\ NoPipeline
  /\ NoLimiter
  /\ NoSanitizer
  /\ NoAudit
  /\ NoExpress

\* storage.save(e)
Save(e) ==
  /\ Len(saved) < MaxSaves
  /\ events' = Push(events, maxEvents, e)
  /\ saved' = Append(saved, e)
  /\ queried' = FALSE
  /\ filters' = NoFilters
  /\ result' = <<>>
  /\ UNCHANGED <<maxEvents, corsVars, chainVars, limitVars, sanVars, auditVars,
                 expressVars>>

\* storage.query(f); the caller looks at one result before it goes on
RunQuery(f) ==
  /\ ~queried
  /\ result' = Query(events, f)
  /\ filters' = f
  /\ queried' = TRUE
  /\ UNCHANGED <<maxEvents, events, saved, corsVars, chainVars, limitVars, sanVars, auditVars,
                 expressVars>>

SaveEvent == \E e \in AuditEvents : Save(e)
QueryStore == \E f \in AuditQueryFilters : RunQuery(f)

NextStore ==
  \/ SaveEvent
  \/ QueryStore

SpecStore == InitStore /\ [][NextStore]_vars

(***************************************************************************)
(* auditMiddleware and AuditLogger                                         *)
(***************************************************************************)
\* String.prototype.toLowerCase on the letters used here
LowerChar(c) == CASE c = "P" -> "p" [] c = "W" -> "w" [] c = "K" -> "k" [] OTHER -> c
ToLowerCase(str) == [i \in DOMAIN str |-> LowerChar(str[i])]

\* options.sensitiveFields: two of the default names, 'pw' for password and
\* 'aK' for apiKey
SensitiveFields == {<<"p", "w">>, <<"a", "K">>}
Redacted == Str(<<"[REDACTED]">>)

\* sensitiveFields.some(field => key.toLowerCase().includes(field.toLowerCase()))
IsSensitive(key) ==
  \E field \in SensitiveFields : IsSubstring(ToLowerCase(field), ToLowerCase(key))

\* sanitizeSensitiveFields(obj, sensitiveFields)
RECURSIVE SanitizeSensitiveFields(_)
SanitizeSensitiveFields(obj) ==
  CASE obj.kind = "array" ->
         [obj EXCEPT !.entries =
            [i \in DOMAIN obj.entries |->
               Entry(<<>>, SanitizeSensitiveFields(obj.entries[i].val))]]
    [] obj.kind = "object" ->
         [obj EXCEPT !.entries =
            [i \in DOMAIN obj.entries |->
               LET key == obj.entries[i].key
                   val == obj.entries[i].val
               IN IF IsSensitive(key) THEN Entry(key, Redacted)
                  ELSE IF val.kind \in {"array", "object"}
                    THEN Entry(key, SanitizeSensitiveFields(val))
                  ELSE Entry(key, val)]]
    [] OTHER -> obj

\* an entry of options.excludePaths: a string or a RegExp; the RegExp is its
\* source taken literally and its global flag
StringEntry(str) == [kind |-> "string", source |-> str, global |-> FALSE]
RegExpEntry(source, global) == [kind |-> "regexp", source |-> source, global |-> global]

\* the 0-based positions at or after from where source occurs in str
MatchesFrom(source, str, from) ==
  {i \in from..(Len(str) - Len(source)) : SubSeq(str, i + 1, i + Len(source)) = source}

\* RegExp.prototype.test: a global RegExp searches from its lastIndex and
\* moves it behind the match, or back to 0 when nothing matches
Test(entry, str, index) ==
  LET from == IF entry.global THEN index ELSE 0
      found == MatchesFrom(entry.source, str, from)
      first == CHOOSE i \in found : \A j \in found : i <= j
  IN IF found = {} THEN [matched |-> FALSE, lastIndex |-> 0]
     ELSE [matched |-> TRUE,
           lastIndex |-> IF entry.global THEN first + Len(entry.source) ELSE 0]

\* options.excludePaths.some(...): the entries are tried in order up to the
\* first that excludes the path; i is the entry tried next
RECURSIVE SomeExcludes(_, _, _, _)
SomeExcludes(entries, path, indexes, i) ==
  IF i > Len(entries) THEN [excluded |-> FALSE, lastIndex |-> indexes]
  ELSE IF entries[i].kind = "string"
    THEN IF path = entries[i].source
           THEN [excluded |-> TRUE, lastIndex |-> indexes]
           ELSE SomeExcludes(entries, path, indexes, i + 1)
  ELSE LET t == Test(entries[i], path, indexes[i])
           moved == [indexes EXCEPT ![i] = t.lastIndex]
       IN IF t.matched THEN [excluded |-> TRUE, lastIndex |-> moved]
          ELSE SomeExcludes(entries, path, moved, i + 1)

\* getEventTypeFromRequest; '/l' is '/login', '/o' '/logout' and '/t'
\* '/token/refresh'
GetEventTypeFromRequest(r, status) ==
  IF IsSubstring(<<"/", "l">>, ToLowerCase(r.path))
    THEN IF status = 200 THEN "auth.login.success" ELSE "auth.login.failure"
  ELSE IF IsSubstring(<<"/", "o">>, ToLowerCase(r.path)) THEN "auth.logout"
  ELSE IF IsSubstring(<<"/", "t">>, ToLowerCase(r.path)) THEN "auth.token.refresh"
  ELSE IF ToUpperCase(r.method) = "GET" THEN "data.read"
  ELSE IF ToUpperCase(r.method) = "POST" THEN "data.created"
  ELSE IF ToUpperCase(r.method) \in {"PUT", "PATCH"} THEN "data.updated"
  ELSE IF ToUpperCase(r.method) = "DELETE" THEN "data.deleted"
  ELSE "custom"

\* getSeverityFromStatus
GetSeverityFromStatus(status) ==
  IF status >= 500 THEN "error" ELSE IF status >= 400 THEN "warning" ELSE "info"

\* the metadata the 'finish' listener builds
Metadata(opts, r, status) ==
  [method |-> r.method, path |-> r.path, statusCode |-> status,
   query |-> IF opts.includeQuery /\ Len(r.query.entries) > 0 THEN r.query ELSE Undefined,
   body |-> IF opts.includeBody /\ r.body # Undefined
              THEN SanitizeSensitiveFields(r.body) ELSE Undefined]

\* the event the 'finish' listener hands to auditLogger.log
BuildEvent(opts, r, status) ==
  [type |-> GetEventTypeFromRequest(r, status),
   severity |-> GetSeverityFromStatus(status),
   action |-> <<r.method>> \o r.path,
   result |-> IF status >= 200 /\ status < 400 THEN "success" ELSE "failure",
   metadata |-> Metadata(opts, r, status)]

\* try { await this.storage.save(fullEvent) ... } catch (error) { logger.error(...) }
TryCatchMutant(outcome) == IF outcome = "ok" THEN "resolved" ELSE "rejected"
TryCatch(outcome) == "resolved"

\* '/h' (health), '/l' (login), '/a/h', '/o' (logout)
Paths == {<<"/", "h">>, <<"/", "l">>, <<"/", "a", "/", "h">>, <<"/", "o">>}
ExcludeLists ==
  {<<>>,
   <<StringEntry(<<"/", "h">>)>>,
   <<RegExpEntry(<<"/", "h">>, FALSE)>>,
   <<RegExpEntry(<<"/", "h">>, TRUE)>>,
   <<StringEntry(<<"/", "l">>), RegExpEntry(<<"/", "h">>, TRUE)>>}
AuditOptions ==
  [enabled : BOOLEAN, includeBody : BOOLEAN, includeQuery : BOOLEAN,
   excludePaths : ExcludeLists]

SensitiveKeys == {<<"p", "w">>, <<"x", "P", "W">>, <<"a", "k">>}
Secret == Str(<<"s">>)
AuditTrees ==
  {Obj(<<Entry(<<"x">>, Str(<<"v">>))>>)}
    \cup {Obj(<<Entry(k, Secret)>>) : k \in SensitiveKeys}
    \cup {Obj(<<Entry(<<"x">>, Obj(<<Entry(k, Secret)>>))>>) : k \in SensitiveKeys}
    \cup {Obj(<<Entry(<<"x">>, Arr(<<Obj(<<Entry(<<"p", "w">>, Secret)>>)>>))>>),
          Arr(<<Obj(<<Entry(<<"p", "w">>, Obj(<<Entry(<<"x">>, Secret)>>))>>)>>)}
AuditQueries ==
  {Obj(<<>>), Obj(<<Entry(<<"x">>, Str(<<"v">>))>>), Obj(<<Entry(<<"p", "w">>, Secret)>>),
   Obj(<<Entry(<<"x">>, Obj(<<Entry(<<"x", "P", "W">>, Secret)>>))>>)}
AuditRequests ==
  {[path |-> p, method |-> "GET", query |-> q, body |-> Undefined] :
     p \in Paths, q \in AuditQueries}
  \cup {[path |-> p, method |-> "POST", query |-> Obj(<<>>), body |-> b] :
          p \in Paths, b \in AuditTrees}
  \cup {[path |-> p, method |-> m, query |-> Obj(<<>>), body |-> Undefined] :
          p \in Paths, m \in {"PUT", "PATCH", "DELETE"}}
StatusCodes == {200, 302, 404, 500}

InitAudit ==
  /\ auditOptions \in AuditOptions
  /\ lastIndex = [i \in DOMAIN auditOptions.excludePaths |-> 0]
  /\ NoAuditRun
  /\ NoPipeline
  /\ NoLimiter
  /\ NoSanitizer
  /\ NoStore
  /\ NoExpress

\* a request reaches the audit middleware
AuditArrive(r) ==
  /\ auditPc \in {"idle", "complete"}
  /\ auditReq' = r
  /\ statusCode' = 200
  /\ auditPc' = "arrived"
  /\ listening' = FALSE
  /\ auditNext' = 0
  /\ saveCalls' = <<>>
  /\ saveOutcome' = "none"
  /\ logOutcome' = "none"
  /\ errorLogged' = FALSE
  /\ UNCHANGED <<auditOptions, lastIndex, corsVars, chainVars, limitVars, sanVars, storeVars, expressVars>>

\* the middleware function: an excluded path goes to next() at once, any
\* other gets the 'finish' listener and then next()
AuditHandler ==
  /\ auditPc = "arrived"
  /\ LET some == SomeExcludes(auditOptions.excludePaths, auditReq.path, lastIndex, 1)
     IN /\ lastIndex' = some.lastIndex
        /\ listening' = ~some.excluded
  /\ auditNext' = auditNext + 1
  /\ auditPc' = "passed"
  /\ UNCHANGED <<auditOptions, auditReq, statusCode, saveCalls, saveOutcome, logOutcome,
                 errorLogged, corsVars, chainVars, limitVars, sanVars, storeVars, expressVars>>

\* the response is written out with the status and emits 'finish'
ResponseFinish(status) ==
  /\ auditPc = "passed"
  /\ statusCode' = status
  /\ auditPc' = IF listening THEN "finish" ELSE "complete"
  /\ UNCHANGED <<auditOptions, lastIndex, auditReq, listening, auditNext, saveCalls,
                 saveOutcome, logOutcome, errorLogged, corsVars, chainVars, limitVars,
                 sanVars, storeVars, expressVars>>

\* the connection ends before the response is finished: the response emits
\* 'close' and never 'finish'
ConnectionClose ==
  /\ auditPc = "passed"
  /\ auditPc' = "complete"
  /\ UNCHANGED <<auditOptions, lastIndex, auditReq, statusCode, listening, auditNext,
                 saveCalls, saveOutcome, logOutcome, errorLogged, corsVars, chainVars,
                 limitVars, sanVars, storeVars, expressVars>>

\* the 'finish' listener: it builds the event and awaits auditLogger.log,
\* which returns at once when disabled and otherwise calls storage.save;
\* outcome is what save does
FinishListener(outcome) ==
  /\ auditPc = "finish"
  /\ IF auditOptions.enabled
       THEN /\ saveCalls' = Append(saveCalls, BuildEvent(auditOptions, auditReq, statusCode))
            /\ saveOutcome' = outcome
            /\ logOutcome' = TryCatch(outcome)
            /\ errorLogged' = (outcome # "ok")
       ELSE /\ logOutcome' = "resolved"
            /\ UNCHANGED <<saveCalls, saveOutcome, errorLogged>>
  /\ auditPc' = "complete"
  /\ UNCHANGED <<auditOptions, lastIndex, auditReq, statusCode, listening, auditNext,
                 corsVars, chainVars, limitVars, sanVars, storeVars, expressVars>>

RequestAudited == \E r \in AuditRequests : AuditArrive(r)
ResponseSent == \E status \in StatusCodes : ResponseFinish(status)
AuditLog == \E outcome \in {"ok", "throw", "reject"} : FinishListener(outcome)

NextAudit ==
  \/ RequestAudited
  \/ AuditHandler
  \/ ResponseSent
  \/ ConnectionClose
  \/ AuditLog

SpecAudit == InitAudit /\ [][NextAudit]_vars

(***************************************************************************)
(* Properties                                                              *)
(***************************************************************************)
Range(f) == {f[x] : x \in DOMAIN f}

\* the stage the request stopped at
StoppedAt == IF phase = "done" /\ pos \in 1..Len(app) THEN app[pos] ELSE "none"

\* the request was answered by a stage before the route handler, other than by
\* the 204 of an allowed preflight
EndedEarly ==
  /\ StoppedAt \in {"cors", "rateLimiter", "limitRequestSize", "validateContentType"}
  /\ ~(StoppedAt = "cors" /\ isOriginAllowed)

\* C1: a stage that ends a request early (CORS, rate limit, request size,
\* content type) has set an error status and an error body and was the last
\* stage to run; once an error response is sent, no further stage and no route
\* handler runs for that request.
C1_EarlyTerminationStops ==
  /\ [](EndedEarly =>
          /\ res.sent /\ res.body = "error"
          /\ res.status \in {400, 403, 413, 415, 429}
          /\ ran # <<>> /\ ran[Len(ran)] = StoppedAt
          /\ "route" \notin Range(ran))
  /\ [][(res.sent /\ res.body = "error") => (ran' = ran \/ ran' = <<>>)]_vars

C1_Witness ==
  /\ StoppedAt = "rateLimiter"
  /\ res.status = 429
  /\ res.body = "error"
  /\ Len(app) > pos + 1

\* the request is a preflight
IsPreflight == ToUpperCase(req.method) = "OPTIONS"

\* C2 as stated: every request whose origin resolves to not-allowed is
\* answered 403 and never reaches next.
C2_DisallowedAlwaysRejected ==
  (corsPc = "done" /\ ~isOriginAllowed) =>
    (res.sent /\ res.status = 403 /\ nextCalls = 0)

\* C2 amended: a request whose origin resolves to not-allowed is answered 403
\* without next when it is a preflight or carries a non-empty Origin header; a
\* non-preflight request without an Origin header is passed to next once, with
\* no response sent and no CORS header set.
C2_DisallowedRejectedUnlessNoOrigin ==
  (corsPc = "done" /\ ~isOriginAllowed) =>
    IF IsPreflight \/ Truthy(req.origin)
      THEN res.sent /\ res.status = 403 /\ res.body = "error" /\ nextCalls = 0
      ELSE ~res.sent /\ nextCalls = 1 /\ res.headers = NoHeaders

C2_Witness ==
  /\ corsPc = "done" /\ ~isOriginAllowed
  /\ req.method = "GET" /\ Truthy(req.origin)
  /\ res.status = 403 /\ nextCalls = 0

C4_CredentialsNeverWildcard ==
  HasHeader(res, "Access-Control-Allow-Credentials") =>
    /\ HasHeader(res, "Access-Control-Allow-Origin")
    /\ res.headers["Access-Control-Allow-Origin"] # <<"*">>
    /\ res.headers["Access-Control-Allow-Origin"] = req.origin.val
    /\ HasHeader(res, "Vary")

\* C5: under a predicate policy the function has been invoked exactly once for
\* the request as soon as checkOrigin has run, with the origin or the empty
\* string when the origin is absent; a throw or rejection resolves to
\* not-allowed.
C5_PredicateAlwaysInvoked ==
  (corsConfig.kind = "function" /\ corsPc # "idle") =>
    /\ predCalls = <<IF req.origin.present THEN req.origin.val ELSE <<>> >>
    /\ (corsPc = "rejected" => ~promiseValue)

\* C6: 0 <= tokens <= capacity at every observation point of a TokenBucket.
C6_TokensWithinCapacity ==
  bucket.constructed => (0 <= bucket.tokens /\ bucket.tokens <= bucket.capacity * Scale)

\* C7: in a run of consume(1) calls during which no time elapses at most
\* capacity calls return true, and after one call of the run has returned
\* false no later call of the run returns true.
C7_AtMostCapacitySucceed ==
  /\ [](bucket.constructed => run.ok <= bucket.capacity)
  /\ [][(run.failed /\ run'.failed) => run'.ok = run.ok]_vars

C7_Witness ==
  /\ bucket.constructed /\ run.failed /\ run.ok = bucket.capacity
  /\ lastCall = [op |-> "consume", ok |-> FALSE, value |-> 1]

\* C8: whatever the order in which the handlers of concurrent requests run,
\* every request rateLimit forwards is counted in its key's record (the stored
\* count is the number of requests forwarded in the window), the tokens
\* consume hands out never exceed what the bucket held plus what refill can
\* have added, and a call never takes a non-negative token count below zero.
C8_NoDoubleSpend ==
  /\ [](options.constructed =>
          /\ DOMAIN forwarded = DOMAIN requests
          /\ \A k \in DOMAIN requests : requests[k].count = forwarded[k])
  /\ [](bucket.constructed =>
          granted.amount * Scale + bucket.tokens
            <= granted.base * Scale + (now - granted.since) * bucket.refillRate)
  /\ [][(bucket.constructed /\ bucket.tokens >= 0) => bucket'.tokens >= 0]_vars

C8_Witness ==
  /\ options.constructed
  /\ \A i \in Slots : inflight[i].state = "forwarded" /\ inflight[i].ip = "10.0.0.1"
  /\ requests["10.0.0.1"].count >= 2

\* C9: for every configured maxRequests, at most maxRequests requests of a key
\* are forwarded within one window.
C9_AtMostMaxRequestsForwarded ==
  options.constructed => \A k \in DOMAIN forwarded : forwarded[k] <= options.maxRequests

\* the relative order the stages are documented to run in
StageOrder == <<"cors", "helmet", "mongoSanitize", "hpp", "rateLimiter", "sanitizeInputs">>
Rank(name) == CHOOSE i \in DOMAIN StageOrder : StageOrder[i] = name

\* C10: the stages that have run for a request ran in the order CORS, header
\* hardening, injection defense, parameter-pollution defense, rate limit,
\* sanitize, each at most once, whatever subset of stages is enabled.
C10_FixedStageOrder ==
  \A i, j \in DOMAIN ran :
    (i < j /\ ran[i] \in Range(StageOrder) /\ ran[j] \in Range(StageOrder)) =>
      Rank(ran[i]) < Rank(ran[j])

C10_Witness ==
  /\ Range(StageOrder) \subseteq Range(ran)
  /\ phase = "done"

\* C13: sanitizing the already-sanitized value yields the value sanitized once.
C13_SanitizeIdempotent == sanPc = 2 => sanTwice = sanOnce

\* a key of the value, at any depth, starts with the operator prefix '$'
RECURSIVE HasOperatorKey(_)
HasOperatorKey(v) ==
  /\ v.kind \in {"array", "object"}
  /\ \E i \in DOMAIN v.entries :
       \/ v.kind = "object" /\ v.entries[i].key # <<>> /\ Head(v.entries[i].key) = "$"
       \/ HasOperatorKey(v.entries[i].val)

\* a string value of the value, at any depth, holds an unescaped '<'
RECURSIVE HasRawMarkup(_)
HasRawMarkup(v) ==
  \/ v.kind = "string" /\ \E i \in DOMAIN v.str : v.str[i] = "<"
  \/ v.kind \in {"array", "object"} /\ \E i \in DOMAIN v.entries : HasRawMarkup(v.entries[i].val)

\* C11: with injection defense and sanitization enabled, the body the route
\* handler receives has no operator-prefixed key and no unescaped markup.
C11_BodySanitizedAtRoute ==
  ("route" \in Range(ran) /\ securityConfig.noSqlInjection /\ securityConfig.sanitization)
    => ~HasOperatorKey(req.body) /\ ~HasRawMarkup(req.body)

\* the timestamps of the events are pairwise distinct
DistinctTimestamps(s) == \A i, j \in DOMAIN s : s[i].timestamp = s[j].timestamp => i = j
StrictlyDescending(s) == \A i \in 1..(Len(s) - 1) : s[i].timestamp > s[i + 1].timestamp

\* C14: a query with no filters on events with distinct timestamps returns
\* all of them in strictly descending timestamp order.
C14_QueryDescending ==
  (queried /\ filters = NoFilters /\ DistinctTimestamps(events))
    => /\ StrictlyDescending(result)
       /\ Len(result) = Len(events)
       /\ Range(result) = Range(events)

\* two events saved oldest first come back newest first
C14_Witness ==
  /\ queried /\ filters = NoFilters
  /\ Len(events) >= 2 /\ events[1].timestamp < events[2].timestamp
  /\ Len(result) >= 2 /\ result[1] = events[2] /\ result[2] = events[1]

\* the event passes every filter that is present
Satisfies(e, f) ==
  /\ f.startDate.present => e.timestamp >= f.startDate.val
  /\ f.endDate.present => e.timestamp <= f.endDate.val
  /\ f.actorId.present => OptionalIs(e.actorId, f.actorId.val)
  /\ f.eventType.present => e.type = f.eventType.val
  /\ f.severity.present => e.severity = f.severity.val
  /\ f.resourceType.present => (e.resource.present /\ e.resource.type = f.resourceType.val)
  /\ f.resourceId.present => (e.resource.present /\ OptionalIs(e.resource.id, f.resourceId.val))
  /\ f.result.present => e.result = f.result.val

\* the limit and offset a query asks for
AskedLimit(f) == IF f.limit.present THEN f.limit.val ELSE DefaultLimit
AskedOffset(f) == IF f.offset.present THEN f.offset.val ELSE 0

\* C15: the result is the stored events satisfying every present filter,
\* sorted by descending timestamp, cut to [offset, offset + limit).
C15_QueryExact ==
  queried =>
    result = Slice(Sort(SelectSeq(events, LAMBDA e : Satisfies(e, filters))),
                   AskedOffset(filters), AskedOffset(filters) + AskedLimit(filters))

\* C16: a query returns at most limit events, at most 100 without a limit.
C16_AtMostLimit == queried => Len(result) <= AskedLimit(filters)

\* C17: the store holds at most maxEvents events, the most recently saved
\* ones in save order.
C17_BoundedBuffer ==
  /\ Len(events) <= maxEvents
  /\ events = SubSeq(saved, Len(saved) - Min(maxEvents, Len(saved)) + 1, Len(saved))

\* a value kept under a sensitive key, at any depth, is not the marker
RECURSIVE Leaks(_)
Leaks(v) ==
  /\ v.kind \in {"array", "object"}
  /\ \E i \in DOMAIN v.entries :
       \/ v.kind = "object" /\ IsSensitive(v.entries[i].key) /\ v.entries[i].val # Redacted
       \/ Leaks(v.entries[i].val)

\* C12: the body and the query recorded in an audit event's metadata hold
\* the redaction marker under every sensitive key, at any depth.
C12_MetadataRedacted ==
  \A i \in DOMAIN saveCalls :
    ~Leaks(saveCalls[i].metadata.body) /\ ~Leaks(saveCalls[i].metadata.query)

\* C18: when storage.save throws or rejects, AuditLogger.log resolves and
\* the failure is logged; the response keeps the status it was sent with.
C18_SaveFailureContained ==
  saveOutcome \in {"throw", "reject"} =>
    /\ logOutcome = "resolved"
    /\ errorLogged
    /\ saveCalls[Len(saveCalls)].metadata.statusCode = statusCode

\* save rejected for an audited request and log resolved all the same
C18_Witness ==
  /\ auditPc = "complete"
  /\ Len(saveCalls) = 1
  /\ saveOutcome = "reject"
  /\ logOutcome = "resolved"

\* the path is excluded: it equals a string entry or a pattern entry occurs
\* in it
PathExcluded(path, entries) ==
  \E i \in DOMAIN entries :
    IF entries[i].kind = "string" THEN path = entries[i].source
    ELSE IsSubstring(entries[i].source, path)

\* C19: a completed request on a non-excluded path, with auditing enabled,
\* has exactly one event handed to save.
C19_ExactlyOneSave ==
  (auditPc = "complete" /\ auditOptions.enabled
     /\ ~PathExcluded(auditReq.path, auditOptions.excludePaths))
    => Len(saveCalls) = 1

\* C20: a request on an excluded path is handed to next and no event is
\* saved for it.
C20_ExcludedNeverSaved ==
  (auditPc \in {"passed", "finish", "complete"}
     /\ PathExcluded(auditReq.path, auditOptions.excludePaths))
    => auditNext = 1 /\ saveCalls = <<>>

\* C22 as stated: a consume call that returns false leaves the stored token
\* count as it was before the call.
C22_FailedConsumeKeepsTokens ==
  [][(ConsumeCall /\ ~lastCall'.ok) => bucket'.tokens = bucket.tokens]_vars

\* C22: a consume call that returns false subtracts no part of the cost: the
\* bucket holds the tokens it held before the call plus the refill for the
\* time elapsed since the last refill, capped at capacity.
C22_FailedConsumeOnlyRefills ==
  [][(ConsumeCall /\ ~lastCall'.ok) => bucket' = Refill(bucket, now)]_vars

\* consume(1) failed on a bucket holding the half token refill had added
C22_Witness ==
  /\ bucket.constructed /\ now > 0
  /\ lastCall = [op |-> "consume", ok |-> FALSE, value |-> 1]
  /\ bucket.lastRefill = now /\ bucket.tokens = 500

\* C23: on a bucket of capacity 5 refilled with 1 token per second, a run of
\* immediate consume(1) calls that starts with the bucket full has exactly
\* five successes before its first failure, and one that starts 2 seconds
\* after the bucket was emptied has exactly two.
C23_ScenarioA ==
  (bucket.constructed /\ bucket.capacity = 5 /\ bucket.refillRate = 1) =>
    /\ (run.before = 5 * Scale /\ run.idle = 0) =>
         (run.ok <= 5 /\ (run.failed => run.ok = 5))
    /\ (run.before = 0 /\ run.idle = 2000) =>
         (run.ok <= 2 /\ (run.failed => run.ok = 2))

\* the bucket started full, gave out 5 tokens at once, and 2 seconds later 2
\* more before consume(1) failed
C23_Witness ==
  /\ bucket.constructed /\ bucket.capacity = 5 /\ bucket.refillRate = 1
  /\ granted = [amount |-> 7, base |-> 5, since |-> 0]
  /\ now = 2000 /\ run.before = 0 /\ run.idle = 2000
  /\ run.ok = 2 /\ run.failed
  /\ lastCall = [op |-> "consume", ok |-> FALSE, value |-> 1]

\* C24: the handler of a request under key A leaves the record of every
\* other key, and with it that key's count, window and next outcome, as it
\* was; the keys are the client addresses and, for every request without an
\* address, the one key 'unknown'.
C24_KeyIsolation ==
  /\ [][\A i \in Slots :
          RateLimit(i) =>
            /\ DOMAIN requests' = DOMAIN requests \cup {Identifier(inflight[i].ip)}
            /\ \A b \in DOMAIN requests \ {Identifier(inflight[i].ip)} :
                 requests'[b] = requests[b] /\ forwarded'[b] = forwarded[b]]_vars
  /\ [](DOMAIN requests \subseteq {"unknown"} \cup (Ips \ {""}))
  /\ [](\A i \in Slots :
          (inflight[i].ip = "" /\ inflight[i].state \in {"forwarded", "rejected429"})
            => "unknown" \in DOMAIN requests)

\* a request without address was turned away under 'unknown' while the
\* address 10.0.0.1 still had its own count
C24_Witness ==
  /\ options.constructed /\ options.maxRequests = 2
  /\ DOMAIN requests = {"unknown", "10.0.0.1"}
  /\ requests["unknown"].count = 2 /\ requests["10.0.0.1"].count = 1
  /\ \E i \in Slots : inflight[i] = [ip |-> "", state |-> "rejected429"]

\* C25: a rate limiter that handles requests, or a bucket that is called,
\* was built with a positive maximum, window, capacity and refill rate.
C25_MisconfiguredRejected ==
  /\ (options.constructed /\ DOMAIN requests # {})
       => (options.maxRequests > 0 /\ options.windowMs > 0)
  /\ (bucket.constructed /\ lastCall.op # "none")
       => (bucket.capacity > 0 /\ bucket.refillRate > 0)

\* the status is a success status
IsSuccess(status) == status >= 200 /\ status < 400
HasLoginMarker(path) == IsSubstring(<<"/", "l">>, ToLowerCase(path))

\* C26: the type of a saved event is login-success or login-failure by the
\* success of the status when the path has the login marker, and otherwise
\* follows the method.
C26_EventTypeInferred ==
  \A i \in DOMAIN saveCalls :
    LET e == saveCalls[i]
    IN IF HasLoginMarker(e.metadata.path)
         THEN e.type = (IF IsSuccess(e.metadata.statusCode)
                          THEN "auth.login.success" ELSE "auth.login.failure")
         ELSE /\ e.metadata.method = "GET" => e.type = "data.read"
              /\ e.metadata.method = "POST" => e.type = "data.created"
              /\ e.metadata.method \in {"PUT", "PATCH"} => e.type = "data.updated"
              /\ e.metadata.method = "DELETE" => e.type = "data.deleted"

\* C28: a saved event of type login-failure has result 'failure' and one of
\* type login-success has result 'success'.
C28_TypeAgreesWithResult ==
  \A i \in DOMAIN saveCalls :
    /\ saveCalls[i].type = "auth.login.failure" => saveCalls[i].result = "failure"
    /\ saveCalls[i].type = "auth.login.success" => saveCalls[i].result = "success"

\* C21: a request the pipeline turned away with the CORS 403 or the rate
\* limit 429, with auditing enabled, went through the audit stage, whose
\* 'finish' listener is what saves the request's audit event.
C21_SecurityRejectionsAudited ==
  (phase = "done" /\ serverConfig.audit /\ StoppedAt \in {"cors", "rateLimiter"}
     /\ res.sent /\ res.status \in {403, 429})
    => "audit" \in Range(ran)

\* C27: the CORS middleware invokes next at most once, never both invokes
\* next and sends a response, and when it is done has invoked next or sent
\* a 204 or a 403.
C27_ExactlyOneOutcome ==
  /\ nextCalls <= 1
  /\ ~(nextCalls >= 1 /\ res.sent)
  /\ corsPc = "done" => (nextCalls = 1 \/ (res.sent /\ res.status \in {204, 403}))

\* C29: a sanitized map has as many entries as the map it was made from.
C29_SanitizeKeepsEntries ==
  (sanPc >= 1 /\ sanInput.kind = "object")
    => Len(sanOnce.entries) = Len(sanInput.entries)

\* C30: the origin callback of toExpressCorsOptions is handed the decision
\* the origin check of createCorsMiddleware made for the same policy and
\* origin.
C30_SameOriginDecision ==
  expressDecision # "none"
    => expressDecision = (IF corsPc = "fulfilled" /\ promiseValue THEN "true" ELSE "false")

====
